---- MODULE Spec2Model ----
(***************************************************************************)
(* esdoc-webpack-plugin: the two Plugin classes of src/index.js.           *)
(*   variant "sync"  : lines 1-384   (spawnSync, process run in emit)      *)
(*   variant "async" : lines 387-674 (spawn + promise, run in done)        *)
(* Paths, file names and option values are strings; objects are functions  *)
(* from key to value.  A hook handler is one action.                       *)
(***************************************************************************)
EXTENDS Integers, Sequences, FiniteSets, TLC

VARIABLES
    variant,      \* which Plugin class is instantiated
    options,      \* this.options
    fs,           \* the filesystem: path -> content, for the paths that exist
    isWin,        \* /^win/.test(process.platform)
    cmd,          \* apply(): let cmd
    obj,          \* apply(): let obj = {}
    files,        \* apply(): const files = []
    tmpFile,      \* apply(): let tmpFile
    esdocConfig,  \* apply(): let esdocConfig = path.resolve(givenDirectory, options.conf)
    esdocArgs,    \* apply(): let esdocArgs
    esdocErrors,  \* apply(): let esdocErrors = []   (async variant)
    procs,        \* child processes spawned and not yet closed (async variant)
    phase,        \* the host pipeline: idle, emitted, stalled, crashed
    cycle,        \* number of emit firings so far
    written,      \* history: path -> what the plugin last wrote there
    log           \* history: what each handler did, in order

vars == <<variant, options, fs, isWin, cmd, obj, files, tmpFile, esdocConfig,
          esdocArgs, esdocErrors, procs, phase, cycle, written, log>>

----------------------------------------------------------------------------
(* Bounds *)

\* build cycles (emit firings) of one plugin instance
MaxCycles == 2
\* stderr chunks collected in esdocErrors
MaxChunks == 2

----------------------------------------------------------------------------
(* JavaScript values and strings *)

Null == "<null>"
NullObj == [null |-> Null]
EmptyObj == [k \in {} |-> Null]

Max(a, b) == IF a >= b THEN a ELSE b
Min(a, b) == IF a <= b THEN a ELSE b

\* String.prototype.substring(0, k)
Substring0(s, k) == SubSeq(s, 1, Min(Max(k, 0), Len(s)))

\* s[j], 0-based
CharAt(s, j) == SubSeq(s, j + 1, j + 1)

StartsWith(s, p) == Len(s) >= Len(p) /\ SubSeq(s, 1, Len(p)) = p
EndsWith(s, p) == Len(s) >= Len(p) /\ SubSeq(s, Len(s) - Len(p) + 1, Len(s)) = p
RECURSIVE ContainsFrom(_, _, _)
\* p occurs in s at position i (1-based) or later
ContainsFrom(s, p, i) ==
    IF i + Len(p) - 1 > Len(s) THEN FALSE
    ELSE IF SubSeq(s, i, i + Len(p) - 1) = p THEN TRUE
    ELSE ContainsFrom(s, p, i + 1)

Contains(s, p) == ContainsFrom(s, p, 1)

RECURSIVE LastIndexDown(_, _, _, _)
\* the last index in lo..j (0-based) at which s holds ch, -1 when there is none
LastIndexDown(s, ch, j, lo) ==
    IF j < lo THEN -1
    ELSE IF CharAt(s, j) = ch THEN j
    ELSE LastIndexDown(s, ch, j - 1, lo)

\* String.prototype.lastIndexOf(ch): 0-based, -1 when absent
LastIndexOf(s, ch) == LastIndexDown(s, ch, Len(s) - 1, 0)

\* {...a, ...b}
Spread(a, b) ==
    [k \in (DOMAIN a) \cup (DOMAIN b) |-> IF k \in DOMAIN b THEN b[k] ELSE a[k]]

\* a.k is truthy, for a key whose values are strings
Truthy(a, k) == k \in DOMAIN a /\ a[k] # ""

----------------------------------------------------------------------------
(* path module, POSIX *)

ProcCwd == "/proj"
PluginDir == "/proj/node_modules/esdoc-webpack-plugin"

\* path.join(dir, name) for a relative name
PathJoin(dir, name) ==
    IF dir \in {"./", "."} THEN name
    ELSE IF EndsWith(dir, "/") THEN dir \o name
    ELSE dir \o "/" \o name

\* path.resolve(p): relative paths resolve against process.cwd()
PathResolve1(p) == IF StartsWith(p, "/") THEN p ELSE ProcCwd \o "/" \o p

\* path.resolve(dir, name)
PathResolve(dir, name) ==
    IF StartsWith(name, "/") THEN name ELSE PathResolve1(PathJoin(dir, name))

\* index (0-based) of the last "/" after the root, -1 when there is none
LastSepAfterRoot(p) == LastIndexDown(p, "/", Len(p) - 1, 1)

\* path.parse(p).dir of an absolute path
ParseDir(p) ==
    LET i == LastSepAfterRoot(p) IN IF i = -1 THEN "/" ELSE Substring0(p, i)

\* path.parse(p).base of an absolute path
ParseBase(p) ==
    LET i == LastSepAfterRoot(p)
    IN  IF i = -1 THEN SubSeq(p, 2, Len(p)) ELSE SubSeq(p, i + 2, Len(p))

\* path.dirname(p) of an absolute path without trailing slash
PathDirname(p) == ParseDir(p)

----------------------------------------------------------------------------
(* File contents *)

\* a file that holds no JSON text (an executable, or a broken configuration)
Blob == [json |-> FALSE, val |-> EmptyObj]

\* JSON.stringify(o) as the content of a file
JSONStringify(o) == [json |-> TRUE, val |-> o]

\* the file a path names: POSIX reads a leading "//" as "/"
FsKey(p) == IF StartsWith(p, "//") THEN SubSeq(p, 2, Len(p)) ELSE p

existsSync(fsys, p) == FsKey(p) \in DOMAIN fsys

readFileSync(fsys, p) == fsys[FsKey(p)]

writeFileSync(fsys, p, content) ==
    [q \in (DOMAIN fsys) \cup {FsKey(p)} |-> IF q = FsKey(p) THEN content ELSE fsys[q]]

unlinkSync(fsys, p) == [q \in (DOMAIN fsys) \ {FsKey(p)} |-> fsys[q]]

----------------------------------------------------------------------------
(* Plugin.constructor *)

defaultOptions(opts) ==
    [conf            |-> ".esdoc.json",
     cwd             |-> IF Truthy(opts, "cwd") THEN opts.cwd ELSE "./",
     preserveTmpFile |-> TRUE,
     showOutput      |-> FALSE,
     source          |-> "./src",
     destination     |-> "./docs",
     excludes        |-> <<"\\.config\\.js", "\\.babel\\.js">>,
     plugins         |-> <<[name |-> "esdoc-standard-plugin"]>>]

\* the merge with the operands exchanged: a default replaces the given value
ConstructorDefaultsWin(opts) == Spread(opts, defaultOptions(opts))

Constructor(opts) == Spread(defaultOptions(opts), opts)

----------------------------------------------------------------------------
(* Executable Locator *)

\* Plugin.getESDocFiles()
getESDocFiles(win) ==
    IF win THEN <<"node_modules/.bin/jsdoc.cmd">>
    ELSE <<"node_modules/.bin/esdoc", "node_modules/esdoc/esdoc.js">>

\* const ESDOC_FILES
ESDOC_FILES(win) ==
    IF win THEN <<>>
    ELSE <<"node_modules/.bin/esdoc", "node_modules/esdoc/esdoc.js">>

\* lookupFile with the loops exchanged: every file is tried in the first
\* directory before the second directory is tried
lookupFileDirsOuter(fsys, fileList, dirs) ==
    LET Cand(i, j) == PathResolve1(PathJoin(dirs[j], fileList[i]))
        hits == {ij \in (1..Len(fileList)) \X (1..Len(dirs)) :
                    existsSync(fsys, Cand(ij[1], ij[2]))}
        first == CHOOSE ij \in hits : \A h \in hits :
                    ij[2] < h[2] \/ (ij[2] = h[2] /\ ij[1] <= h[1])
    IN  IF hits = {} THEN Null ELSE Cand(first[1], first[2])

\* lookupFile(files, dirs): files.some(filename => dirs.some(dirname => ...))
lookupFile(fsys, fileList, dirs) ==
    LET Cand(i, j) == PathResolve1(PathJoin(dirs[j], fileList[i]))
        hits == {ij \in (1..Len(fileList)) \X (1..Len(dirs)) :
                    existsSync(fsys, Cand(ij[1], ij[2]))}
        first == CHOOSE ij \in hits : \A h \in hits :
                    ij[1] < h[1] \/ (ij[1] = h[1] /\ ij[2] <= h[2])
    IN  IF hits = {} THEN Null ELSE Cand(first[1], first[2])

\* the directories apply() passes to lookupFile
LookupDirs(esdocConfigDir, givenDirectory) ==
    <<esdocConfigDir, givenDirectory, ProcCwd, PluginDir>>

----------------------------------------------------------------------------
(* Common-Prefix Resolver *)

RECURSIVE FirstDiffFrom(_, _, _, _)
\* for (let j = ...; j < k; j++) if (a[j] != b[j]) { k = j; break }
FirstDiffFrom(a, b, k, j) ==
    IF j >= k THEN k
    ELSE IF CharAt(a, j) # CharAt(b, j) THEN j
    ELSE FirstDiffFrom(a, b, k, j + 1)

\* the inner loop: the first j < k with a[j] != b[j], else k
FirstDiff(a, b, k) == FirstDiffFrom(a, b, k, 0)

RECURSIVE CommonLen(_, _, _)
\* the outer loop from index i (1-based) on, limit k so far
CommonLen(s, i, k) ==
    IF i > Len(s) THEN k
    ELSE CommonLen(s, i + 1, FirstDiff(s[i], s[1], Min(k, Len(s[i]))))

\* Plugin.getLongestCommonSharedDirectory(s); s[0].length throws on an empty s
getLongestCommonSharedDirectory(s) ==
    IF s = <<>> THEN [threw |-> TRUE, value |-> Null]
    ELSE LET k == CommonLen(s, 2, Len(s[1]))
             fullPath == Substring0(s[1], k)
         IN  [threw |-> FALSE,
              value |-> Substring0(fullPath, LastIndexOf(fullPath, "/"))]

\* the module-level getLongestCommonSharedDirectory: k = s[0].Length is
\* undefined, Math.Min is not a function, substring(0, undefined) is the whole
getLongestCommonSharedDirectoryAsync(s) ==
    IF s = <<>> \/ Len(s) >= 2 THEN [threw |-> TRUE, value |-> Null]
    ELSE LET fullPath == s[1]
         IN  [threw |-> FALSE,
              value |-> Substring0(fullPath, LastIndexOf(fullPath, "/"))]

----------------------------------------------------------------------------
(* Configuration Resolver: the pieces *)

\* /\/node_modules\//.test(filepath)
IsException(filepath) == Contains(filepath, "/node_modules/")

\* /index.js$/.test(filepath): the dot matches any character
IsInclusion(filepath) ==
    /\ Len(filepath) >= 8
    /\ SubSeq(filepath, Len(filepath) - 7, Len(filepath) - 3) = "index"
    /\ EndsWith(filepath, "js")

Includes(list, x) == \E i \in 1..Len(list) : list[i] = x

RECURSIVE CollectFiles(_, _, _)
\* compilation.fileDependencies.forEach(...) pushing onto files
CollectFiles(acc, deps, dedup) ==
    IF deps = <<>> THEN acc
    ELSE LET f == Head(deps)
             take == ~IsException(f) /\ IsInclusion(f) /\ (dedup => ~Includes(acc, f))
         IN  CollectFiles(IF take THEN Append(acc, f) ELSE acc, Tail(deps), dedup)

\* Plugin.readConfigFile: fse.readJsonSync(filepath, {throws: false})
readConfigFile(fsys, filepath) ==
    IF readFileSync(fsys, filepath).json
    THEN [threw |-> FALSE, value |-> readFileSync(fsys, filepath).val]
    ELSE [threw |-> FALSE, value |-> NullObj]

\* the module-level readConfigFile: require(filepath); only a .json file is
\* parsed as JSON, any other extension is compiled as JavaScript
readConfigFileAsync(fsys, filepath) ==
    IF readFileSync(fsys, filepath).json /\ EndsWith(filepath, ".json")
    THEN [threw |-> FALSE, value |-> readFileSync(fsys, filepath).val]
    ELSE [threw |-> TRUE, value |-> NullObj]

\* the transient path of the synchronous variant
TmpPathSync(config) ==
    IF EndsWith(ParseBase(config), ".tmp")
    THEN ParseDir(config) \o "/" \o ParseBase(config)
    ELSE ParseDir(config) \o "/" \o ParseBase(config) \o ".tmp"

\* the transient path of the asynchronous variant
TmpPathAsync(config) == config \o ".tmp"

----------------------------------------------------------------------------
(* The environment a plugin instance runs in *)

\* options objects given to new Plugin(opts)
OptsChoices ==
    { [destination |-> "./out"],
      [preserveTmpFile |-> FALSE, excludes |-> <<"\\.spec\\.js">>],
      [preserveTmpFile |-> FALSE, conf |-> "esdoc.tmp"],
      [preserveTmpFile |-> FALSE, cwd |-> "/"] }

\* platform and installed executables
EnvChoices ==
    { [win |-> FALSE, exes |-> {}],
      [win |-> FALSE, exes |-> {"/proj/node_modules/.bin/esdoc"}],
      [win |-> FALSE, exes |-> {"/proj/node_modules/esdoc/esdoc.js",
                                PluginDir \o "/node_modules/.bin/esdoc"}],
      [win |-> TRUE,  exes |-> {"/proj/node_modules/.bin/jsdoc.cmd"}] }

\* what the configuration file holds when the instance is created
ConfChoices ==
    { [present |-> FALSE, content |-> Blob],
      [present |-> TRUE,  content |-> Blob],
      [present |-> TRUE,  content |-> JSONStringify(
          [source |-> "./a", includes |-> "[x]", destination |-> "./d1"])],
      [present |-> TRUE,  content |-> JSONStringify([destination |-> "./d1"])] }

\* what the user makes of the configuration file between two builds of a
\* watch run: removes it, or rewrites it
ConfEdits ==
    { [present |-> FALSE, content |-> Blob],
      [present |-> TRUE,  content |-> JSONStringify(
          [source |-> "./b", includes |-> "[y]"])] }

\* compilation.fileDependencies of a build
DepsChoices ==
    { <<"/proj/node_modules/x/index.js", "/proj/src/index.js", "/proj/src/sub/index.js">>,
      <<"/proj/node_modules/x/index.js", "/proj/src/main.js">>,
      <<"/proj/lib/index.js">> }

\* what running the executable does: spawned = FALSE is a spawn that fails
\* (the result of spawnSync then has null streams); removes = TRUE is a run
\* during which the transient file disappears when retention is off (removed
\* by another build of the same configuration: the case the existsSync guard
\* of Esdoc is written for)
RunOutcomes ==
    { [spawned |-> FALSE, stderr |-> FALSE, status |-> 1, removes |-> FALSE],
      [spawned |-> TRUE,  stderr |-> FALSE, status |-> 0, removes |-> FALSE],
      [spawned |-> TRUE,  stderr |-> TRUE,  status |-> 0, removes |-> FALSE],
      [spawned |-> TRUE,  stderr |-> FALSE, status |-> 1, removes |-> FALSE],
      [spawned |-> TRUE,  stderr |-> FALSE, status |-> 0, removes |-> TRUE] }

InitialFs(env, conf, path) ==
    [q \in env.exes \cup (IF conf.present THEN {path} ELSE {}) |->
        IF q \in env.exes THEN Blob ELSE conf.content]

----------------------------------------------------------------------------
(* State after new Plugin(opts) and apply(compiler) *)

\* apply(): esdocConfigDir = path.dirname(path.resolve(givenDirectory, options.conf))
EsdocConfigDir == PathDirname(PathResolve(options.cwd, options.conf))

Ev(n, e, a) == [cyc |-> n, ev |-> e, arg |-> a]

\* what the caller's configuration path resolve(cwd, conf) holds on disk
ConfigOnDisk(fsys) ==
    LET path == PathResolve(options.cwd, options.conf)
    IN  IF ~existsSync(fsys, path) THEN "absent"
        ELSE IF ~readFileSync(fsys, path).json THEN "unparsable"
        ELSE IF /\ Truthy(readFileSync(fsys, path).val, "source")
                /\ Truthy(readFileSync(fsys, path).val, "includes") THEN "both"
        ELSE "partial"

Init ==
    /\ variant \in {"sync", "async"}
    /\ \E opts \in OptsChoices, env \in EnvChoices, conf \in ConfChoices :
          /\ options = Constructor(opts)
          /\ isWin = env.win
          /\ fs = InitialFs(env, conf, PathResolve(options.cwd, options.conf))
    /\ esdocConfig = PathResolve(options.cwd, options.conf)
    /\ cmd = Null
    /\ obj = EmptyObj
    /\ files = <<>>
    /\ tmpFile = Null
    /\ esdocArgs = <<>>
    /\ esdocErrors = <<>>
    /\ procs = {}
    /\ phase = "idle"
    /\ cycle = 0
    /\ written = EmptyObj
    /\ log = <<>>

----------------------------------------------------------------------------
(* The emit handler, stage by stage.  c is the closure state of apply() plus
   the filesystem, the events of this run (evs) and how the handler ended
   (end: "" while running, "returned", "threw"). *)

\* cmd = lookupFile(...); if (!cmd) callback(new Error(...))   -- no return
StageLocate(c, n) ==
    LET list == IF variant = "sync" THEN getESDocFiles(isWin) ELSE ESDOC_FILES(isWin)
        found == lookupFile(c.fs, list, LookupDirs(EsdocConfigDir, options.cwd))
    IN  [c EXCEPT !.cmd = found,
                  !.evs = @ \o <<Ev(n, "locate", found)>>
                            \o (IF found = Null
                                THEN <<Ev(n, "callback", "error:notfound")>>
                                ELSE <<>>)]

\* if (fse.existsSync(esdocConfig)) { try { obj = readConfigFile(esdocConfig) }
\*                                    catch (e) { callback(e); return } }
StageRead(c, n) ==
    IF c.end # "" THEN c
    ELSE IF ~existsSync(c.fs, c.esdocConfig)
    THEN [c EXCEPT !.evs = @ \o <<Ev(n, "consult", c.esdocConfig)>>]
    ELSE LET r == IF variant = "sync" THEN readConfigFile(c.fs, c.esdocConfig)
                  ELSE readConfigFileAsync(c.fs, c.esdocConfig)
             rd == <<Ev(n, "consult", c.esdocConfig), Ev(n, "read", c.esdocConfig)>>
                   \o (IF readFileSync(c.fs, c.esdocConfig).json THEN <<>>
                       ELSE <<Ev(n, "unparsable", c.esdocConfig)>>)
         IN  IF r.threw
             THEN [c EXCEPT !.evs = @ \o rd \o <<Ev(n, "callback", "error:parse")>>,
                            !.end = "returned"]
             ELSE [c EXCEPT !.obj = r.value, !.evs = @ \o rd]

\* the resolver with the merges the other way round: a source read from the
\* file or inferred from the dependencies replaces the one of the options
StageResolveSourceKept(c, n, deps) ==
    IF c.end # "" THEN c
    ELSE IF c.obj = NullObj
    THEN \* obj.source of null
         [c EXCEPT !.evs = @ \o <<Ev(n, "throw", "TypeError:obj")>>, !.end = "threw"]
    ELSE IF Truthy(c.obj, "source") /\ Truthy(c.obj, "includes")
    THEN [c EXCEPT !.obj = Spread(options, c.obj),
                   !.evs = @ \o <<Ev(n, "branch", "file")>>]
    ELSE LET fl == CollectFiles(c.files, deps, variant = "sync")
             r  == IF variant = "sync" THEN getLongestCommonSharedDirectory(fl)
                   ELSE getLongestCommonSharedDirectoryAsync(fl)
             kind == IF fl = <<>> THEN "empty" ELSE "nonempty"
             called == <<Ev(n, "branch", "infer")>>
                       \o [i \in 1..Len(deps) |-> Ev(n, "dep", deps[i])]
                       \o <<Ev(n, "collected", kind), Ev(n, "prefix", kind)>>
         IN  IF r.threw
             THEN [c EXCEPT !.files = fl,
                            !.evs = @ \o called \o <<Ev(n, "throw", "TypeError:prefix")>>,
                            !.end = "threw"]
             ELSE [c EXCEPT !.files = fl,
                            !.obj = Spread(Spread(options, c.obj), [source |-> r.value]),
                            !.evs = @ \o called \o <<Ev(n, "inferred", r.value)>>]

\* if (obj.source && obj.includes) {...} else {...}
StageResolve(c, n, deps) ==
    IF c.end # "" THEN c
    ELSE IF c.obj = NullObj
    THEN \* obj.source of null
         [c EXCEPT !.evs = @ \o <<Ev(n, "throw", "TypeError:obj")>>, !.end = "threw"]
    ELSE IF Truthy(c.obj, "source") /\ Truthy(c.obj, "includes")
    THEN [c EXCEPT !.obj = Spread(c.obj, options),
                   !.evs = @ \o <<Ev(n, "branch", "file")>>]
    ELSE LET fl == CollectFiles(c.files, deps, variant = "sync")
             r  == IF variant = "sync" THEN getLongestCommonSharedDirectory(fl)
                   ELSE getLongestCommonSharedDirectoryAsync(fl)
             kind == IF fl = <<>> THEN "empty" ELSE "nonempty"
             called == <<Ev(n, "branch", "infer")>>
                       \o [i \in 1..Len(deps) |-> Ev(n, "dep", deps[i])]
                       \o <<Ev(n, "collected", kind), Ev(n, "prefix", kind)>>
         IN  IF r.threw
             THEN [c EXCEPT !.files = fl,
                            !.evs = @ \o called \o <<Ev(n, "throw", "TypeError:prefix")>>,
                            !.end = "threw"]
             ELSE [c EXCEPT !.files = fl,
                            !.obj = Spread(Spread(c.obj, [source |-> r.value]), options),
                            !.evs = @ \o called \o <<Ev(n, "inferred", r.value)>>]

\* the write with esdocArgs set before esdocConfig = tmpFile: the executable is
\* pointed at the path the handler started with
StageWriteArgsFirst(c, n) ==
    IF c.end # "" THEN c
    ELSE LET t == IF variant = "sync" THEN TmpPathSync(c.esdocConfig)
                  ELSE TmpPathAsync(c.esdocConfig)
         IN  [c EXCEPT !.tmpFile = t,
                       !.fs = writeFileSync(@, t, JSONStringify(c.obj)),
                       !.written = writeFileSync(@, t, JSONStringify(c.obj)),
                       !.esdocConfig = t,
                       !.esdocArgs = <<"-c", c.esdocConfig>>,
                       !.evs = @ \o <<Ev(n, "write", t)>>]

\* tmpFile = ...; fse.writeFileSync(tmpFile, JSON.stringify(obj));
\* esdocConfig = tmpFile; esdocArgs = ['-c', esdocConfig]
StageWrite(c, n) ==
    IF c.end # "" THEN c
    ELSE LET t == IF variant = "sync" THEN TmpPathSync(c.esdocConfig)
                  ELSE TmpPathAsync(c.esdocConfig)
         IN  [c EXCEPT !.tmpFile = t,
                       !.fs = writeFileSync(@, t, JSONStringify(c.obj)),
                       !.written = writeFileSync(@, t, JSONStringify(c.obj)),
                       !.esdocConfig = t,
                       !.esdocArgs = <<"-c", t>>,
                       !.evs = @ \o <<Ev(n, "write", t)>>]

\* Plugin.Esdoc(cmd, esdocArgs, esdocConfigDir, tmpFile), out the behaviour of
\* the executable.  spawnSync throws on a cmd that is no string; a spawn that
\* fails returns null streams, and esdoc.stderr.length then throws.
Esdoc(c, n, out) ==
    IF c.cmd = Null
    THEN [threw |-> TRUE, fs |-> c.fs, evs |-> <<Ev(n, "spawn_throw", c.cmd)>>]
    ELSE LET gone == /\ out.spawned /\ out.removes
                     /\ ~options.preserveTmpFile
                     /\ existsSync(c.fs, c.tmpFile)
             fs0 == IF gone THEN unlinkSync(c.fs, c.tmpFile) ELSE c.fs
             ran == IF out.spawned
                    THEN <<Ev(n, "spawn", c.esdocArgs[2]), Ev(n, "spawn_opt", c.esdocArgs[1]),
                           Ev(n, "spawn_cmd", c.cmd), Ev(n, "spawn_cwd", EsdocConfigDir)>>
                         \o (IF gone THEN <<Ev(n, "vanish", c.tmpFile)>> ELSE <<>>)
                         \o <<Ev(n, "exit", IF out.stderr THEN "stderr" ELSE "clean")>>
                    ELSE <<Ev(n, "spawn_error", c.cmd)>>
             remove == /\ c.tmpFile # Null
                       /\ ~options.preserveTmpFile
                       /\ existsSync(fs0, c.tmpFile)
             fs1 == IF remove THEN unlinkSync(fs0, c.tmpFile) ELSE fs0
             rm == IF remove THEN <<Ev(n, "unlink", c.tmpFile)>> ELSE <<>>
         IN  IF ~out.spawned
             THEN [threw |-> TRUE, fs |-> fs1,
                   evs |-> ran \o rm \o <<Ev(n, "throw", "TypeError:stderr")>>]
             ELSE [threw |-> FALSE, fs |-> fs1,
                   evs |-> ran \o rm \o
                      <<Ev(n, "result", IF out.stderr THEN "failed" ELSE "succeeded")>>]

\* try { this.Esdoc(...) } catch (err) { return new Error(...) }  callback()
StageRun(c, n, out) ==
    IF c.end # "" THEN c
    ELSE LET r == Esdoc(c, n, out)
         IN  IF r.threw
             THEN [c EXCEPT !.fs = r.fs, !.evs = @ \o r.evs, !.end = "returned"]
             ELSE [c EXCEPT !.fs = r.fs,
                            !.evs = @ \o r.evs \o <<Ev(n, "callback", "")>>,
                            !.end = "returned"]

\* the asynchronous variant ends its emit handler with callback()
StageCallback(c, n) ==
    IF c.end # "" THEN c
    ELSE [c EXCEPT !.evs = @ \o <<Ev(n, "callback", "")>>, !.end = "returned"]

\* compiler.hooks.emit.tapAsync(pluginName, (compilation, callback) => {...})
EmitSync(c, n, deps, out) ==
    LET c1 == StageLocate(c, n)
        c2 == StageRead(c1, n)
        c3 == StageResolve(c2, n, deps)
        c4 == StageWrite(c3, n)
    IN  StageRun(c4, n, out)

\* compiler.hooks.emit.tapAsync(PLUGIN_NAME, (compilation, callback) => {...})
EmitAsync(c, n, deps) ==
    LET c1 == StageLocate(c, n)
        c2 == StageRead(c1, n)
        c3 == StageResolve(c2, n, deps)
        c4 == StageWrite(c3, n)
    IN  StageCallback(c4, n)

----------------------------------------------------------------------------
(* The host pipeline *)

Callbacks(evs) == SelectSeq(evs, LAMBDA e : e.ev = "callback")

\* what the host does once the emit handler is over: an exception ends the
\* build process, a continuation called without error lets the build go on
\* to the done hook, a continuation called only with an error fails the
\* build, and a continuation never called leaves the build waiting
HostAfterEmit(c) ==
    IF c.end = "threw" THEN "crashed"
    ELSE IF \E i \in 1..Len(Callbacks(c.evs)) : Callbacks(c.evs)[i].arg = "" THEN "emitted"
    ELSE IF Callbacks(c.evs) = <<>> THEN "stalled"
    ELSE "idle"

\* the handler inferred a source / the source it inferred
HasInferred(evs) == \E i \in 1..Len(evs) : evs[i].ev = "inferred"
LastInferred(evs) == evs[CHOOSE i \in 1..Len(evs) : evs[i].ev = "inferred"].arg

\* the emit handler storing the inferred source on the options object
\* (options.source = ... instead of obj.source = ...)
EmitWritesOptions ==
    /\ phase = "idle"
    /\ cycle < MaxCycles
    /\ \E deps \in DepsChoices, out \in RunOutcomes :
          LET n  == cycle + 1
              c0 == [cmd |-> cmd, obj |-> obj, files |-> files, tmpFile |-> tmpFile,
                     esdocConfig |-> esdocConfig, esdocArgs |-> esdocArgs, fs |-> fs,
                     written |-> written,
                     evs |-> <<Ev(n, "emit", ConfigOnDisk(fs))>>, end |-> ""]
          IN  \E c \in {IF variant = "sync" THEN EmitSync(c0, n, deps, out)
                       ELSE EmitAsync(c0, n, deps)} :
              /\ cmd' = c.cmd
              /\ obj' = c.obj
              /\ files' = c.files
              /\ tmpFile' = c.tmpFile
              /\ esdocConfig' = c.esdocConfig
              /\ esdocArgs' = c.esdocArgs
              /\ fs' = c.fs
              /\ written' = c.written
              /\ log' = log \o c.evs
              /\ phase' = HostAfterEmit(c)
              /\ options' = IF HasInferred(c.evs)
                            THEN [options EXCEPT !.source = LastInferred(c.evs)]
                            ELSE options
    /\ cycle' = cycle + 1
    /\ UNCHANGED <<variant, isWin, esdocErrors, procs>>

Emit ==
    /\ phase = "idle"
    /\ cycle < MaxCycles
    /\ \E deps \in DepsChoices, out \in RunOutcomes :
          LET n  == cycle + 1
              c0 == [cmd |-> cmd, obj |-> obj, files |-> files, tmpFile |-> tmpFile,
                     esdocConfig |-> esdocConfig, esdocArgs |-> esdocArgs, fs |-> fs,
                     written |-> written,
                     evs |-> <<Ev(n, "emit", ConfigOnDisk(fs))>>, end |-> ""]
          IN  \E c \in {IF variant = "sync" THEN EmitSync(c0, n, deps, out)
                       ELSE EmitAsync(c0, n, deps)} :
              /\ cmd' = c.cmd
              /\ obj' = c.obj
              /\ files' = c.files
              /\ tmpFile' = c.tmpFile
              /\ esdocConfig' = c.esdocConfig
              /\ esdocArgs' = c.esdocArgs
              /\ fs' = c.fs
              /\ written' = c.written
              /\ log' = log \o c.evs
              /\ phase' = HostAfterEmit(c)
    /\ cycle' = cycle + 1
    /\ UNCHANGED <<variant, options, isWin, esdocErrors, procs>>

\* compiler.hooks.done.tap(pluginName, stats => console.log(...))
DoneSync ==
    /\ phase = "emitted"
    /\ variant = "sync"
    /\ phase' = "idle"
    /\ log' = Append(log, Ev(cycle, "done", ""))
    /\ UNCHANGED <<variant, options, fs, isWin, cmd, obj, files, tmpFile, esdocConfig,
                   esdocArgs, esdocErrors, procs, cycle, written>>

\* compiler.hooks.done.tap(PLUGIN_NAME, stats => promiseEsdoc(...).then(...)):
\* spawn(cmd, esdocArgs, {cwd: esdocConfigDir}) inside the promise executor;
\* a cmd that is no string makes spawn throw and the promise reject
DoneAsync ==
    /\ phase = "emitted"
    /\ variant = "async"
    /\ phase' = "idle"
    /\ IF cmd = Null
       THEN /\ procs' = procs
            /\ log' = log \o <<Ev(cycle, "done", ""), Ev(cycle, "spawn_throw", cmd)>>
       ELSE /\ procs' = procs \cup {[id |-> cycle, cmd |-> cmd, args |-> esdocArgs,
                                     cwd |-> EsdocConfigDir, tmpFile |-> tmpFile,
                                     chunks |-> 0]}
            /\ log' = log \o <<Ev(cycle, "done", ""), Ev(cycle, "spawn", esdocArgs[2]),
                                 Ev(cycle, "spawn_opt", esdocArgs[1]),
                                 Ev(cycle, "spawn_cmd", cmd),
                                 Ev(cycle, "spawn_cwd", EsdocConfigDir)>>
    /\ UNCHANGED <<variant, options, fs, isWin, cmd, obj, files, tmpFile, esdocConfig,
                   esdocArgs, esdocErrors, cycle, written>>

\* esdoc.stderr.on('data', data => esdocErrors.push(data.toString()))
StderrData ==
    /\ phase # "crashed"
    /\ \E p \in procs :
          /\ Len(esdocErrors) < MaxChunks
          /\ esdocErrors' = Append(esdocErrors, p.id)
          /\ procs' = (procs \ {p}) \cup {[p EXCEPT !.chunks = @ + 1]}
          /\ log' = Append(log, Ev(p.id, "stderr", ""))
    /\ UNCHANGED <<variant, options, fs, isWin, cmd, obj, files, tmpFile, esdocConfig,
                   esdocArgs, phase, cycle, written>>

\* esdoc.on('close', closeCode => {...}): unlinkSync throws on a missing file,
\* and the rejection reads the undeclared name code, so it throws as well; an
\* exception thrown by an event handler ends the build process
Close ==
    /\ phase # "crashed"
    /\ \E p \in procs :
          LET remove  == p.tmpFile # Null /\ ~options.preserveTmpFile
              missing == remove /\ ~existsSync(fs, p.tmpFile)
              failed  == Len(esdocErrors) > 0
              closed  == <<Ev(p.id, "exit", IF p.chunks > 0 THEN "stderr" ELSE "clean")>>
          IN  /\ procs' = procs \ {p}
              /\ fs' = IF remove /\ ~missing THEN unlinkSync(fs, p.tmpFile) ELSE fs
              /\ phase' = IF missing \/ failed THEN "crashed" ELSE phase
              /\ log' = log \o closed \o
                    (IF missing THEN <<Ev(p.id, "throw", "ENOENT:unlink")>>
                     ELSE (IF remove THEN <<Ev(p.id, "unlink", p.tmpFile)>> ELSE <<>>)
                          \o (IF failed THEN <<Ev(p.id, "throw", "ReferenceError:code")>>
                              ELSE <<Ev(p.id, "result", "succeeded")>>))
    /\ UNCHANGED <<variant, options, isWin, cmd, obj, files, tmpFile, esdocConfig,
                   esdocArgs, esdocErrors, cycle, written>>

\* the transient file of a running process disappears when retention is off
\* (removed by another build of the same configuration)
TmpVanishes ==
    /\ phase # "crashed"
    /\ \E p \in procs :
          /\ p.tmpFile # Null
          /\ existsSync(fs, p.tmpFile)
          /\ ~options.preserveTmpFile
          /\ fs' = unlinkSync(fs, p.tmpFile)
          /\ log' = Append(log, Ev(p.id, "vanish", p.tmpFile))
    /\ UNCHANGED <<variant, options, isWin, cmd, obj, files, tmpFile, esdocConfig,
                   esdocArgs, esdocErrors, procs, phase, cycle, written>>

\* between two builds, while no documentation run is in progress, the user
\* edits or removes the configuration file; the emit handler looks for it
\* again on every build (fse.existsSync(esdocConfig))
ConfigChanges ==
    /\ phase = "idle"
    /\ procs = {}
    /\ cycle >= 1
    /\ cycle < MaxCycles
    /\ \E e \in ConfEdits :
          LET path == PathResolve(options.cwd, options.conf)
          IN  /\ fs' = IF e.present THEN writeFileSync(fs, path, e.content)
                        ELSE unlinkSync(fs, path)
              /\ fs' # fs
    /\ UNCHANGED <<variant, options, isWin, cmd, obj, files, tmpFile, esdocConfig,
                   esdocArgs, esdocErrors, procs, phase, cycle, written, log>>

Next ==
    \/ Emit \/ DoneSync \/ DoneAsync \/ StderrData \/ Close \/ TmpVanishes
    \/ ConfigChanges

Spec == Init /\ [][Next]_vars

----------------------------------------------------------------------------
(* Reading the history *)

\* the events of build cycle n, in order
CycleEvs(n) == SelectSeq(log, LAMBDA e : e.cyc = n)

\* cycle n logged event e / event e with argument a
Has(n, e) == \E i \in 1..Len(log) : log[i].cyc = n /\ log[i].ev = e
HasArg(n, e, a) == \E i \in 1..Len(log) : log[i] = Ev(n, e, a)

\* the continuation of cycle n was called with an error / without argument
CalledWithError(n) == \E i \in 1..Len(log) :
    log[i].cyc = n /\ log[i].ev = "callback" /\ log[i].arg # ""
CalledWithoutError(n) == HasArg(n, "callback", "")

\* the original configuration path P = resolve(cwd, conf)
ConfigPath == PathResolve(options.cwd, options.conf)

\* the transient path the specification derives from P
ExpectedTmp(path) == IF EndsWith(path, ".tmp") THEN path ELSE path \o ".tmp"

\* the run of cycle n failed: the spawn threw or failed, or the process wrote
\* to stderr
RunFailed(n) ==
    \/ Has(n, "spawn_throw")
    \/ Has(n, "spawn_error")
    \/ HasArg(n, "exit", "stderr")

----------------------------------------------------------------------------
(* C1..C10 *)

\* C1: in every build cycle, whatever its outcome, the emit continuation is
\* invoked exactly once.
C1_CallbackExactlyOnce ==
    \A n \in 1..cycle : Len(Callbacks(CycleEvs(n))) = 1

\* C2: a cycle whose process run failed (stderr output, or an error raised by
\* running it) has its continuation invoked with an error object, and never
\* without argument.
C2_RunFailureReported ==
    \A n \in 1..cycle : RunFailed(n) => CalledWithError(n) /\ ~CalledWithoutError(n)

\* C3: a cycle in which the locator finds no executable signals failure and
\* does nothing further: no configuration read, no transient file written,
\* no process spawned.
C3_NotFoundStops ==
    \A n \in 1..cycle :
        HasArg(n, "locate", Null) =>
            /\ CalledWithError(n)
            /\ ~Has(n, "read")
            /\ ~Has(n, "write")
            /\ ~Has(n, "spawn") /\ ~Has(n, "spawn_throw") /\ ~Has(n, "spawn_error")

\* C4: a cycle whose configuration file exists but cannot be parsed passes the
\* parse failure to the continuation, infers nothing, writes no transient file
\* and spawns no process.
C4_ParseFailurePropagated ==
    \A n \in 1..cycle :
        Has(n, "unparsable") =>
            /\ HasArg(n, "callback", "error:parse")
            /\ ~HasArg(n, "branch", "infer")
            /\ ~Has(n, "write")
            /\ ~Has(n, "spawn")

\* C5: a cycle on the inference path whose filtered dependency list is empty
\* does not call the Common-Prefix Resolver with the empty list, signals a
\* configuration error to the continuation and writes no transient file.
C5_EmptyInferenceRejected ==
    \A n \in 1..cycle :
        HasArg(n, "collected", "empty") =>
            /\ ~HasArg(n, "prefix", "empty")
            /\ CalledWithError(n)
            /\ ~Has(n, "write")

\* C6: completion is reported to the host (the continuation is invoked without
\* error) only after the process run of that cycle has exited.
C6_ReportAfterExit ==
    \A i \in 1..Len(log) :
        (log[i].ev = "callback" /\ log[i].arg = "") =>
            \E j \in 1..(i - 1) : log[j].cyc = log[i].cyc /\ log[j].ev = "exit"

\* the process spawned at log position j is still running at position i
RunningBetween(j, i) ==
    /\ log[j].ev = "spawn"
    /\ ~\E k \in (j + 1)..(i - 1) : log[k].cyc = log[j].cyc /\ log[k].ev = "exit"

\* C7: no cycle reads or writes the transient file while the process started
\* by an earlier cycle is still running against that file.
C7_NoOverlapOnTransientFile ==
    \A i \in 1..Len(log) :
        log[i].ev \in {"read", "write"} =>
            ~\E j \in 1..(i - 1) :
                /\ log[j].cyc < log[i].cyc
                /\ RunningBetween(j, i)
                /\ FsKey(log[j].arg) = FsKey(log[i].arg)

\* a process run has just completed: everything logged after its exit belongs
\* to the handler that saw it exit
JustCompleted(k) ==
    /\ log[k].ev = "exit"
    /\ \A j \in (k + 1)..Len(log) :
          log[j].cyc = log[k].cyc /\ log[j].ev \in {"unlink", "result", "callback", "throw"}

\* the transient path cycle n wrote
WrittenBy(n) == (CHOOSE i \in 1..Len(log) : log[i].cyc = n /\ log[i].ev = "write")

\* C8: after a process run completes, reported as success or failure, the
\* transient file does not exist when preserveTmpFile is false, and exists with
\* the content that cycle wrote when preserveTmpFile is true; deleting an
\* absent file raises no error.
C8_RetentionPolicy ==
    \A k \in 1..Len(log) :
        JustCompleted(k) =>
            LET t == log[WrittenBy(log[k].cyc)].arg
            IN  /\ ~options.preserveTmpFile => ~existsSync(fs, t)
                /\ options.preserveTmpFile =>
                      existsSync(fs, t) /\ readFileSync(fs, t) = readFileSync(written, t)
                /\ ~HasArg(log[k].cyc, "throw", "ENOENT:unlink")

\* cycle n wrote its transient file and then met an error
ErrorAfterWrite(n) ==
    \E i \in 1..Len(log) :
        /\ log[i].cyc = n /\ log[i].ev = "write"
        /\ \E j \in (i + 1)..Len(log) :
              /\ log[j].cyc = n
              /\ \/ log[j].ev \in {"spawn_throw", "spawn_error", "throw"}
                 \/ log[j] = Ev(n, "exit", "stderr")

\* C9: with preserveTmpFile false, a cycle that meets an error after it wrote
\* the transient file (in particular a spawn that throws) has removed the file
\* by the time it ends.
C9_CleanupOnErrorPath ==
    (cycle >= 1 /\ ~options.preserveTmpFile /\ ErrorAfterWrite(cycle)) =>
        ~existsSync(fs, log[WrittenBy(cycle)].arg)

\* C10: in every cycle the transient configuration is written to P + '.tmp',
\* or to P itself when P ends in '.tmp', P the original resolved configuration
\* path; the path gains no further '.tmp' suffix on later cycles.
C10_TransientPathFromOriginal ==
    \A i \in 1..Len(log) :
        log[i].ev = "write" => FsKey(log[i].arg) = ExpectedTmp(ConfigPath)

----------------------------------------------------------------------------
(* C11..C20 *)

\* C11: in every cycle whose configuration file on disk has both source and
\* includes, the configuration written to the transient file has, for each key
\* of the resolved options, the options' value, and for each key only the file
\* has, the file's value.
C11_InstanceOptionsWin ==
    [][(cycle' = cycle + 1 /\ ConfigOnDisk(fs) = "both" /\ Has(cycle, "write")') =>
          LET file == readFileSync(fs, ConfigPath).val
              w    == readFileSync(written', tmpFile').val
          IN  /\ \A k \in DOMAIN options : k \in DOMAIN w /\ w[k] = options[k]
              /\ \A k \in (DOMAIN file) \ (DOMAIN options) :
                    k \in DOMAIN w /\ w[k] = file[k]]_vars

\* the pair a = (file, directory) is tried before the pair b
PairBefore(a, b) == a[1] < b[1] \/ (a[1] = b[1] /\ a[2] < b[2])

SharedDirectory(d, s) ==
    /\ \A i \in 1..Len(s) : StartsWith(s[i], d)
    /\ Len(d) < Len(s[1])
    /\ CharAt(s[1], Len(d)) = "/"

\* d is the longest shared directory of the paths s
LongestSharedDirectory(d, s) ==
    /\ SharedDirectory(d, s)
    /\ \A m \in 0..Len(s[1]) :
          SharedDirectory(Substring0(s[1], m), s) => m <= Len(d)

\* C13: called with a non-empty list of absolute paths, the Common-Prefix
\* Resolver returns the longest directory that is a leading substring of
\* every path (the empty string when they share none).
C13_LongestCommonDirectory ==
    (cycle >= 1 /\ HasArg(cycle, "prefix", "nonempty")) =>
        \E i \in 1..Len(log) :
            /\ log[i].cyc = cycle
            /\ log[i].ev = "inferred"
            /\ LongestSharedDirectory(log[i].arg, files)

\* the plugin was constructed with new Plugin({destination: './out'})
OnlyDestination == options = Constructor([destination |-> "./out"])

\* C14: constructed with only destination set, with no configuration file on
\* disk, an executable that is found and a process that exits without stderr,
\* a cycle writes the transient file holding that destination, then runs the
\* executable with -c and the transient path, then deletes the transient
\* file, which does not exist after the run.
C14_EndToEndDefaults ==
    \A k \in 1..Len(log) :
        (/\ JustCompleted(k)
         /\ log[k].arg = "clean"
         /\ OnlyDestination
         /\ HasArg(log[k].cyc, "emit", "absent")) =>
            LET n == log[k].cyc
            IN  \E i \in 1..k, j \in 1..k, u \in k..Len(log) :
                   /\ i < j
                   /\ log[i].cyc = n /\ log[i].ev = "write"
                   /\ readFileSync(written, log[i].arg).val.destination = "./out"
                   /\ log[j] = Ev(n, "spawn", log[i].arg)
                   /\ HasArg(n, "spawn_opt", "-c")
                   /\ log[u] = Ev(n, "unlink", log[i].arg)
                   /\ ~existsSync(fs, log[i].arg)

\* C15: every process is spawned with the executable path the locator found
\* in that cycle, the arguments -c and the transient path written in that
\* cycle, and the directory of the original configuration path resolve(cwd,
\* conf) as working directory, the same in every cycle.  (A cycle spawns its
\* process before the next emit fires, so each cycle is checked while it is
\* the current one.)
C15_SpawnArguments ==
    \A i \in 1..Len(log) :
        /\ log[i].ev = "spawn_cwd" => log[i].arg = PathDirname(ConfigPath)
        /\ (log[i].cyc = cycle /\ log[i].ev = "spawn") =>
              /\ Has(cycle, "write")
              /\ log[i].arg = log[WrittenBy(cycle)].arg
              /\ i + 2 <= Len(log)
              /\ log[i + 1] = Ev(cycle, "spawn_opt", "-c")
              /\ log[i + 2].ev = "spawn_cmd"
              /\ log[i + 2].arg # Null
              /\ HasArg(cycle, "locate", log[i + 2].arg)

\* two cycles have each spawned a process
C15_Witness == Has(1, "spawn") /\ Has(2, "spawn")

\* the defaults the documentation lists
BuiltInDefaults ==
    [conf            |-> ".esdoc.json",
     cwd             |-> "./",
     preserveTmpFile |-> TRUE,
     showOutput      |-> FALSE,
     source          |-> "./src",
     destination     |-> "./docs",
     excludes        |-> <<"\\.config\\.js", "\\.babel\\.js">>,
     plugins         |-> <<[name |-> "esdoc-standard-plugin"]>>]

C17_ConfigPathConsulted ==
    \A i \in 1..Len(log) :
        /\ log[i].ev \in {"consult", "read"} => log[i].arg = ConfigPath
        /\ log[i].ev = "read" =>
              ~\E j \in 1..(i - 1) :
                  /\ log[j].ev = "write"
                  /\ log[j].cyc < log[i].cyc
                  /\ FsKey(log[j].arg) = FsKey(log[i].arg)

\* C18: a cycle takes the configuration-file branch only if the configuration
\* file on disk in that cycle has both source and includes; when there is no
\* configuration file in that cycle, or it lacks one of the two, the cycle
\* takes the inference branch, whatever earlier cycles read or merged.
C18_BranchFromThisCycle ==
    \A n \in 1..cycle :
        /\ HasArg(n, "branch", "file") => HasArg(n, "emit", "both")
        /\ ((HasArg(n, "emit", "absent") \/ HasArg(n, "emit", "partial"))
             /\ Has(n, "branch")) => HasArg(n, "branch", "infer")

\* the fileDependencies of cycle n, as a set
DepsOf(n) == {log[i].arg : i \in {j \in 1..Len(log) : log[j].cyc = n /\ log[j].ev = "dep"}}

\* C19: in a cycle on the inference branch the list passed to the Common-Prefix
\* Resolver holds exactly the fileDependencies of that cycle that do not
\* contain /node_modules/ and end in index.js, each once, and no path that
\* only an earlier cycle contributed.
C19_FilteredListOfThisCycle ==
    (cycle >= 1 /\ HasArg(cycle, "branch", "infer")) =>
        /\ \A i \in 1..Len(files) :
              /\ files[i] \in DepsOf(cycle)
              /\ ~Contains(files[i], "/node_modules/")
              /\ EndsWith(files[i], "index.js")
        /\ \A f \in DepsOf(cycle) :
              (~Contains(f, "/node_modules/") /\ EndsWith(f, "index.js")) =>
                  \E i \in 1..Len(files) : files[i] = f
        /\ \A i, j \in 1..Len(files) : i # j => files[i] # files[j]

\* C20: the result of a run is failed if and only if the process wrote to
\* stderr, whatever its exit status: a run with stderr output is reported as
\* failed, a run without is reported as succeeded.
C20_FailedIffStderr ==
    \A n \in 1..cycle :
        /\ HasArg(n, "exit", "stderr") =>
              HasArg(n, "result", "failed") /\ ~HasArg(n, "result", "succeeded")
        /\ HasArg(n, "exit", "clean") =>
              HasArg(n, "result", "succeeded") /\ ~HasArg(n, "result", "failed")

----------------------------------------------------------------------------
(* C21..C23 *)

\* an earlier cycle's process wrote to stderr before log position k
EarlierStderr(k) ==
    \E j \in 1..(k - 1) : log[j].ev = "stderr" /\ log[j].cyc < log[k].cyc

C22_OptionsReadOnly == [][options' = options]_vars

\* two cycles have run the merge of the options into obj and written it
C22_Witness ==
    /\ cycle >= 2
    /\ Has(1, "write")
    /\ Has(2, "write")
    /\ HasArg(2, "branch", "infer")

====
